---- MODULE Spec2Model ----
(***************************************************************************)
(* Data quality and drift analysis engines of backend/drift_detector.py    *)
(* and backend/quality_checker.py, and the request handlers of             *)
(* backend/server.py that run them on stored datasets.                     *)
(*                                                                         *)
(* A DataFrame is a record [ok, nrows, cols]: cols maps each column name   *)
(* to [dtype, vals], vals a sequence of nrows cells.  Cell 0 is the        *)
(* missing marker (NaN / None); a cell v > 0 of a "num" column is the      *)
(* number v, and of a "cat" column the v-th text label ("A", "B", ...).    *)
(* ok = FALSE stands for an argument that is no DataFrame (None).          *)
(*                                                                         *)
(* Floats are modelled as exact rationals with the two IEEE specials the   *)
(* engine can produce: [k |-> "fin", n, d] (n/d in lowest terms),          *)
(* [k |-> "inf"] (+infinity) and [k |-> "nan"].                            *)
(***************************************************************************)
EXTENDS Integers, Sequences, FiniteSets, TLC

\* ------------------------------------------------------------- bounds
MaxRows == 2

MaxVal == 2

\* Rows of the one-column numeric frames given to detect_outliers: a value
\* leaves the IQR fence only among four or more.
MaxOutlierRows == 5

\* Reports kept per collection of the store.
MaxReports == 2

\* The dataset ids a request can name or an upload can be given.
DatasetIds == {"d1", "d2"}

ColNames == {"x", "y"}

Dtypes == {"num", "cat"}

\* ------------------------------------------------------------- floats
Abs(i) == IF i < 0 THEN -i ELSE i

RECURSIVE GCD(_, _)
GCD(a, b) == IF b = 0 THEN a ELSE GCD(b, a % b)

Fin(n, d) ==
    LET g == GCD(Abs(n), d)
    IN  [k |-> "fin", n |-> n \div g, d |-> d \div g]

NaN == [k |-> "nan", n |-> 0, d |-> 1]

Inf == [k |-> "inf", n |-> 1, d |-> 1]

Zero == Fin(0, 1)

One == Fin(1, 1)

IsFin(a) == a.k = "fin"

\* a + b in IEEE arithmetic (no -inf arises: every statistic is >= 0)
Add(a, b) ==
    IF a.k = "nan" \/ b.k = "nan" THEN NaN
    ELSE IF a.k = "inf" \/ b.k = "inf" THEN Inf
    ELSE Fin(a.n * b.d + b.n * a.d, a.d * b.d)

\* a / m for a positive integer m
DivInt(a, m) ==
    IF a.k = "fin" THEN Fin(a.n, a.d * m) ELSE a

\* a < b as Python compares floats: every comparison with nan is False
Lt(a, b) ==
    IF a.k = "nan" \/ b.k = "nan" THEN FALSE
    ELSE IF a.k = "inf" THEN FALSE
    ELSE IF b.k = "inf" THEN TRUE
    ELSE a.n * b.d < b.n * a.d

Gt(a, b) == Lt(b, a)

Le(a, b) ==
    IF a.k = "nan" \/ b.k = "nan" THEN FALSE
    ELSE IF b.k = "inf" THEN TRUE
    ELSE IF a.k = "inf" THEN FALSE
    ELSE a.n * b.d <= b.n * a.d

\* a - b and a * b of finite floats (the quartiles of a column are finite)
Sub(a, b) ==
    IF a.k = "fin" /\ b.k = "fin" THEN Fin(a.n * b.d - b.n * a.d, a.d * b.d)
    ELSE NaN

Mul(a, b) ==
    IF a.k = "fin" /\ b.k = "fin" THEN Fin(a.n * b.n, a.d * b.d)
    ELSE NaN

RECURSIVE SumSeq(_)
SumSeq(s) == IF s = <<>> THEN Zero ELSE Add(Head(s), SumSeq(Tail(s)))

\* np.mean of a non-empty list of floats
np_mean(s) == DivInt(SumSeq(s), Len(s))

\* ------------------------------------------------------------- series
RECURSIVE dropna(_)
dropna(s) ==
    IF s = <<>> THEN <<>>
    ELSE IF Head(s) = 0 THEN dropna(Tail(s))
    ELSE <<Head(s)>> \o dropna(Tail(s))

Range(s) == {s[i] : i \in 1..Len(s)}

\* number of cells of s equal to v
Count(s, v) == Cardinality({i \in 1..Len(s) : s[i] = v})

\* number of cells of s that are <= v
CountLe(s, v) == Cardinality({i \in 1..Len(s) : s[i] <= v})

RECURSIVE SumInts(_)
SumInts(s) == IF s = <<>> THEN 0 ELSE Head(s) + SumInts(Tail(s))

\* Series.mean(): nan for an empty series
series_mean(s) == IF s = <<>> THEN NaN ELSE Fin(SumInts(s), Len(s))

\* ------------------------------------------------------------- scipy.stats
\* A library call either raises or returns (statistic, pvalue).
Raised(e) == [raised |-> TRUE, error |-> e, statistic |-> NaN, pvalue |-> NaN]

Returned(st, p) == [raised |-> FALSE, error |-> "", statistic |-> st, pvalue |-> p]

\* Numerator, over Len(data1) * Len(data2), of the two-sample KS statistic
\* max_v |F1(v) - F2(v)| of two non-empty samples.
KsNumerator(data1, data2) ==
    LET n1 == Len(data1)
        n2 == Len(data2)
        diffs == {Abs(CountLe(data1, v) * n2 - CountLe(data2, v) * n1) :
                    v \in Range(data1) \cup Range(data2)}
    IN  CHOOSE m \in diffs : \A o \in diffs : o <= m

\* Lattice paths from (0,0) to (i,j) every point (a,b) of which has
\* |a/n1 - b/n2| < h/(n1*n2): the paths of the exact null distribution on
\* which the statistic stays below the observed one.
RECURSIVE PathsInside(_, _, _, _, _)
PathsInside(i, j, n1, n2, h) ==
    IF Abs(i * n2 - j * n1) >= h THEN 0
    ELSE IF i = 0 /\ j = 0 THEN 1
    ELSE (IF i > 0 THEN PathsInside(i - 1, j, n1, n2, h) ELSE 0)
       + (IF j > 0 THEN PathsInside(i, j - 1, n1, n2, h) ELSE 0)

\* Exact two-sided p-value P(D >= d) (method "exact", chosen by "auto" for
\* samples this small); 1.0 when the statistic is 0.
KsPValue(n1, n2, h) ==
    IF h = 0 THEN One
    ELSE LET total == PathsInside(n1, n2, n1, n2, 2 * n1 * n2 + 1)
             inside == PathsInside(n1, n2, n1, n2, h)
         IN  Fin(total - inside, total)

\* stats.ks_2samp(data1, data2).  A sample with no observation is rejected
\* with ValueError by the releases before 1.14 and answered with
\* (nan, nan) and a warning by the later ones: policy names the installed
\* behaviour.  Samples that cannot be ordered against each other (numbers
\* against text) raise TypeError.
ks_2samp(data1, data2, comparable, policy) ==
    IF data1 = <<>> \/ data2 = <<>>
    THEN IF policy = "raise" THEN Raised("ValueError") ELSE Returned(NaN, NaN)
    ELSE IF ~comparable THEN Raised("TypeError")
    ELSE LET n1 == Len(data1)
             n2 == Len(data2)
             h == KsNumerator(data1, data2)
         IN  Returned(Fin(h, n1 * n2), KsPValue(n1, n2, h))

\* Upper critical values of the chi-square distribution, times 1000, for
\* the tail probabilities 1/2, 1/10, 1/20, 1/100 and 1..3 degrees of freedom.
Chi2Critical ==
    << <<455, 2706, 3841, 6635>>,
       <<1386, 4605, 5991, 9210>>,
       <<2366, 6251, 7815, 11345>> >>

\* A representative of the tail-probability interval each critical value
\* closes: (1/2,1), (1/10,1/2), (1/20,1/10), (1/100,1/20), (0,1/100).
Chi2Tail == <<Fin(3, 4), Fin(3, 10), Fin(3, 40), Fin(3, 100), Fin(1, 200)>>

\* chi2.sf(statistic, dof), to the precision of the table: nan when dof < 1
\* (not a distribution), 1 at 0, 0 at +inf.
Chi2Sf(st, dof) ==
    IF st.k = "nan" \/ dof < 1 THEN NaN
    ELSE IF st.k = "inf" THEN Zero
    ELSE IF st.n = 0 THEN One
    ELSE LET row == Chi2Critical[dof]
             passed == {i \in 1..4 : st.n * 1000 >= row[i] * st.d}
         IN  Chi2Tail[Cardinality(passed) + 1]

\* One term (o - e)^2 / e of the statistic; a division by 0 yields inf
\* (o > 0 whenever e = 0, since every joined value occurs on one side).
Chi2Term(o, e) ==
    IF e = 0 THEN (IF o = 0 THEN NaN ELSE Inf)
    ELSE Fin((o - e) * (o - e), e)

RECURSIVE Chi2Sum(_, _, _)
Chi2Sum(vals, f_obs, f_exp) ==
    IF vals = {} THEN Zero
    ELSE LET v == CHOOSE w \in vals : TRUE
         IN  Add(Chi2Term(f_obs[v], f_exp[v]), Chi2Sum(vals \ {v}, f_obs, f_exp))

RECURSIVE SumOver(_, _)
SumOver(vals, f) ==
    IF vals = {} THEN 0
    ELSE LET v == CHOOSE w \in vals : TRUE
         IN  f[v] + SumOver(vals \ {v}, f)

\* stats.chisquare(f_obs, f_exp) over the joined values vals: ValueError
\* when the two sums differ (relative tolerance 1e-8; two zero sums
\* compare as nan and pass), else the statistic with k - 1 degrees of freedom.
chisquare(vals, f_obs, f_exp) ==
    IF SumOver(vals, f_obs) # SumOver(vals, f_exp) THEN Raised("ValueError")
    ELSE LET st == Chi2Sum(vals, f_obs, f_exp)
         IN  Returned(st, Chi2Sf(st, Cardinality(vals) - 1))

\* ------------------------------------------------------------- DriftDetector
VARIABLES
    threshold,      \* self.threshold, set at construction
    reference_df,   \* arguments of detect_drift
    target_df,
    pc,             \* position in detect_drift: "call", "loop", "done"
    common_cols,    \* the columns the for loop iterates over
    column_drift,   \* dict column -> drift_result
    drift_scores,   \* list of the drift_score values appended so far
    report,         \* the returned dict, once pc = "done"
    df,             \* argument of the DataQualityChecker operations
    missing_values, \* result of check_missing_values(df)
    duplicates,     \* result of check_duplicates(df)
    outliers,       \* result of detect_outliers(df)
    datasets,       \* db.datasets: the ids of the stored datasets
    quality_reports, \* db.quality_reports: dataset_id of each report, in order
    drift_reports,  \* db.drift_reports: <<reference, target>> of each report
    response        \* the answer to the latest request

vars == <<threshold, reference_df, target_df, pc, common_cols,
          column_drift, drift_scores, report, df, missing_values, duplicates,
          outliers, datasets, quality_reports, drift_reports, response>>

driftVars == <<threshold, reference_df, target_df, common_cols,
               column_drift, drift_scores, report>>

qualityVars == <<df, missing_values, duplicates, outliers>>

serverVars == <<datasets, quality_reports, drift_reports, response>>

\* No request answered yet.
NoResponse == [handler |-> "", args |-> <<>>, status |-> 0, detail |-> "", cause |-> ""]

\* The store and the answer before the first request.
ServerIdle ==
    /\ datasets = {}
    /\ quality_reports = <<>>
    /\ drift_reports = <<>>
    /\ response = NoResponse

Bins == 10

Pos == [k |-> "pos", n |-> 1, d |-> 1]

\* Index of the bin of np.histogram that holds v, for the breakpoints
\* linspace(lo, hi, bins + 1) with the outer edges moved to -inf and +inf:
\* the number of inner breakpoints lo + b * (hi - lo) / bins, b in 1..bins-1,
\* that are <= v.
BinOf(v, lo, hi) ==
    IF hi = lo THEN (IF v >= lo THEN Bins - 1 ELSE 0)
    ELSE LET b == (Bins * (v - lo)) \div (hi - lo)
         IN  IF b < 0 THEN 0 ELSE IF b > Bins - 1 THEN Bins - 1 ELSE b

\* Number of observations of data in bin b.
Histogram(data, lo, hi, b) ==
    Cardinality({i \in 1..Len(data) : BinOf(data[i], lo, hi) = b})

SeqMin(s) == CHOOSE m \in Range(s) : \A o \in Range(s) : m <= o

SeqMax(s) == CHOOSE m \in Range(s) : \A o \in Range(s) : o <= m

\* _calculate_psi: sum over the bins of (t - r) * ln(t / r) on the smoothed
\* bin fractions.  The logarithm is not computed: the result is 0 when the
\* two binned distributions coincide, an unnamed positive number Pos when
\* they differ, and nan when a sample is empty (0/0 bin fractions).  The
\* except branch (return 0.0) is not entered for the numeric samples _ks_test
\* passes on.
calculate_psi(ref_data, target_data) ==
    IF ref_data = <<>> \/ target_data = <<>> THEN NaN
    ELSE LET lo == SeqMin(ref_data)
             hi == SeqMax(ref_data)
             used == {BinOf(v, lo, hi) : v \in Range(ref_data) \cup Range(target_data)}
         IN  IF \A b \in used :
                    Histogram(ref_data, lo, hi, b) * Len(target_data)
                        = Histogram(target_data, lo, hi, b) * Len(ref_data)
             THEN Zero
             ELSE Pos

\* Mutation: the except branch leaves the score undefined.
ErrorResultNoScore(column, test_type, e) ==
    [column_name |-> column, test_type |-> test_type, has_drift |-> FALSE,
     drift_score |-> NaN, error |-> e]

\* The result of the except branch of a column test.
ErrorResult(column, test_type, e) ==
    [column_name |-> column, test_type |-> test_type, has_drift |-> FALSE,
     drift_score |-> Zero, error |-> e]

\* Mutation: a p-value equal to the threshold is flagged too.
has_drift_le(p_value) == Le(p_value, threshold)

\* has_drift = p_value < self.threshold
has_drift(p_value) == Lt(p_value, threshold)

\* Mutation: a column whose PSI is positive is flagged whatever its p-value.
ks_test_psi(ref_df, tgt_df, column, small_sample) ==
    LET ref_data == dropna(ref_df.cols[column].vals)
        target_data == dropna(tgt_df.cols[column].vals)
        res == ks_2samp(ref_data, target_data,
                        tgt_df.cols[column].dtype = "num", small_sample)
    IN  IF res.raised THEN ErrorResult(column, "KS Test", res.error)
        ELSE [column_name |-> column,
              test_type |-> "KS Test",
              has_drift |-> has_drift(res.pvalue)
                             \/ calculate_psi(ref_data, target_data) = Pos,
              drift_score |-> res.statistic,
              p_value |-> res.pvalue,
              psi_score |-> calculate_psi(ref_data, target_data),
              reference_mean |-> series_mean(ref_data),
              target_mean |-> series_mean(target_data)]

\* _ks_test.  reference_std and target_std (square roots) are left out of
\* the result: nothing reads them.
ks_test(ref_df, tgt_df, column, small_sample) ==
    LET ref_data == dropna(ref_df.cols[column].vals)
        target_data == dropna(tgt_df.cols[column].vals)
        res == ks_2samp(ref_data, target_data,
                        tgt_df.cols[column].dtype = "num", small_sample)
    IN  IF res.raised THEN ErrorResult(column, "KS Test", res.error)
        ELSE [column_name |-> column,
              test_type |-> "KS Test",
              has_drift |-> has_drift(res.pvalue),
              drift_score |-> res.statistic,
              p_value |-> res.pvalue,
              psi_score |-> calculate_psi(ref_data, target_data),
              reference_mean |-> series_mean(ref_data),
              target_mean |-> series_mean(target_data)]

\* value_counts() of a column as a function over the values 1..MaxVal
\* (missing cells are not counted); its rows are the values counted > 0.
value_counts(frame, column) ==
    [v \in 1..MaxVal |-> Count(frame.cols[column].vals, v)]

Rows(counts) == {v \in DOMAIN counts : counts[v] > 0}

chi_square_test(ref_df, tgt_df, column) ==
    LET ref_counts == value_counts(ref_df, column)
        target_counts == value_counts(tgt_df, column)
        \* pd.merge refuses to join a text key with a numeric key when both
        \* tables have rows
        merge_raises == /\ tgt_df.cols[column].dtype # ref_df.cols[column].dtype
                        /\ Rows(ref_counts) # {}
                        /\ Rows(target_counts) # {}
        merged == Rows(ref_counts) \cup Rows(target_counts)
        res == IF merge_raises THEN Raised("ValueError")
               ELSE chisquare(merged, target_counts, ref_counts)
    IN  IF res.raised THEN ErrorResult(column, "Chi-Square Test", res.error)
        ELSE [column_name |-> column,
              test_type |-> "Chi-Square Test",
              has_drift |-> has_drift(res.pvalue),
              drift_score |-> res.statistic,
              p_value |-> res.pvalue,
              reference_unique_values |-> Cardinality(Rows(ref_counts)),
              target_unique_values |-> Cardinality(Rows(target_counts))]

\* Body of the for loop for one column: the test is chosen by the dtype of
\* the reference column.
ColumnResult(column, small_sample) ==
    IF reference_df.cols[column].dtype = "num"
    THEN ks_test(reference_df, target_df, column, small_sample)
    ELSE chi_square_test(reference_df, target_df, column)

\* ------------------------------------------------------------- inputs
\* Columns are enumerated up to the order of their cells, which no column
\* test reads.
SortedSeqs(n) ==
    {s \in [1..n -> 0..MaxVal] : \A i \in 1..(n - 1) : s[i] <= s[i + 1]}

Frame(n, c) == [ok |-> TRUE, nrows |-> n, cols |-> c]

AllSeqs(n) == [1..n -> 0..MaxVal]

\* The frames of at most MaxRows rows over the columns ColNames, their
\* cells in order when sorted; a frame without columns has no rows.
FramesOver(sorted) ==
    UNION {{Frame(n, c) :
              c \in UNION {[S -> [dtype : Dtypes,
                                  vals : IF sorted THEN SortedSeqs(n) ELSE AllSeqs(n)]] :
                             S \in SUBSET ColNames}} :
             n \in 0..MaxRows}
    \ {Frame(n, <<>>) : n \in 1..MaxRows}

DriftFrames == FramesOver(TRUE)

\* An argument that is no DataFrame: reading its columns raises.
NotAFrame == [ok |-> FALSE, nrows |-> 0, cols |-> <<>>]

\* 0, the default 0.05, and 0.5
Thresholds == {Zero, Fin(1, 20), Fin(1, 2)}

\* What the installed ks_2samp does with an empty sample (see ks_2samp).
SmallSamplePolicies == {"raise", "nan"}

Pending == [pending |-> TRUE]

Init ==
    /\ threshold \in Thresholds
    /\ reference_df \in DriftFrames \cup {NotAFrame}
    /\ target_df \in DriftFrames \cup {NotAFrame}
    /\ pc = "call"
    /\ common_cols = {}
    /\ column_drift = <<>>
    /\ drift_scores = <<>>
    /\ report = Pending
    /\ df = NotAFrame
    /\ missing_values = Pending
    /\ duplicates = Pending
    /\ outliers = Pending
    /\ ServerIdle

\* ------------------------------------------------------------- detect_drift
\* Lines 17-21: the empty accumulators and the common columns.
DetectDriftEnter ==
    /\ pc = "call"
    /\ reference_df.ok /\ target_df.ok
    /\ common_cols' = DOMAIN reference_df.cols \cap DOMAIN target_df.cols
    /\ column_drift' = <<>>
    /\ drift_scores' = <<>>
    /\ pc' = "loop"
    /\ UNCHANGED <<threshold, reference_df, target_df, report, qualityVars, serverVars>>

\* Lines 51-58: an exception outside the column tests (an argument without
\* .columns) yields the degenerate report.
DetectDriftError ==
    /\ pc = "call"
    /\ ~(reference_df.ok /\ target_df.ok)
    /\ report' = [drift_detected |-> FALSE,
                  overall_drift_score |-> Zero,
                  column_drift |-> <<>>,
                  test_results |-> [error |-> "AttributeError"]]
    /\ pc' = "done"
    /\ UNCHANGED <<threshold, reference_df, target_df, common_cols,
                   column_drift, drift_scores, qualityVars, serverVars>>

Put(f, key, val) ==
    [c \in DOMAIN f \cup {key} |-> IF c = key THEN val ELSE f[c]]

\* Lines 23-35: one iteration of the loop, in the arbitrary order of
\* list(set(...)).
DetectDriftColumn ==
    /\ pc = "loop"
    /\ \E column \in common_cols \ DOMAIN column_drift :
       \E drift_result \in {ColumnResult(column, p) : p \in SmallSamplePolicies} :
              /\ column_drift' = Put(column_drift, column, drift_result)
              /\ drift_scores' = Append(drift_scores, drift_result.drift_score)
    /\ UNCHANGED <<threshold, reference_df, target_df, pc,
                   common_cols, report, qualityVars, serverVars>>

\* Mutation: the scores are summed and never divided by their number.
overall_drift_score_sum(scores) ==
    IF scores # <<>> THEN SumSeq(scores) ELSE Zero

overall_drift_score(scores) ==
    IF scores # <<>> THEN np_mean(scores) ELSE Zero

\* Mutation: the columns whose test produced a statistic are counted.
columns_with_drift_tested(cd) ==
    Cardinality({c \in DOMAIN cd : "p_value" \in DOMAIN cd[c]})

columns_with_drift(cd) == Cardinality({c \in DOMAIN cd : cd[c].has_drift})

\* Lines 37-50: the aggregation and the returned report.
DetectDriftReturn ==
    /\ pc = "loop"
    /\ common_cols \ DOMAIN column_drift = {}
    /\ LET overall == overall_drift_score(drift_scores)
       IN  report' = [drift_detected |-> Gt(overall, threshold),
                      overall_drift_score |-> overall,
                      column_drift |-> column_drift,
                      test_results |->
                          [total_columns_tested |-> Cardinality(common_cols),
                           columns_with_drift |-> columns_with_drift(column_drift),
                           threshold |-> threshold]]
    /\ pc' = "done"
    /\ UNCHANGED <<threshold, reference_df, target_df, common_cols,
                   column_drift, drift_scores, qualityVars, serverVars>>

Next ==
    \/ DetectDriftEnter
    \/ DetectDriftError
    \/ DetectDriftColumn
    \/ DetectDriftReturn

Spec == Init /\ [][Next]_vars

\* ------------------------------------------------------------- DataQualityChecker
\* Quality inputs keep the order of their cells: duplicate rows depend on it.
QualityFrames == FramesOver(FALSE)

\* round(100 * num / den, 2): the nearest hundredth, ties to even
RoundPercent(num, den) ==
    LET scaled == num * 10000
        q == scaled \div den
        r == scaled % den
        h == IF 2 * r < den THEN q
             ELSE IF 2 * r > den THEN q + 1
             ELSE IF q % 2 = 0 THEN q ELSE q + 1
    IN  Fin(h, 100)

\* Mutation: the cells that are not missing are counted twice over.
missing_count_twice(frame, column) ==
    2 * (Len(frame.cols[column].vals) - Count(frame.cols[column].vals, 0))

\* df[column].isna().sum()
missing_count(frame, column) == Count(frame.cols[column].vals, 0)

\* The dict check_missing_values returns; {} when the argument has no len().
check_missing_values(frame) ==
    IF ~frame.ok THEN <<>>
    ELSE LET total_rows == frame.nrows
         IN  [total_rows |-> total_rows,
              columns |->
                [column \in DOMAIN frame.cols |->
                    [count |-> missing_count(frame, column),
                     percentage |->
                        IF total_rows > 0
                        THEN RoundPercent(missing_count(frame, column), total_rows)
                        ELSE Zero]]]

FrameRow(frame, i) == [column \in DOMAIN frame.cols |-> frame.cols[column].vals[i]]

\* Mutation: every row is kept, and so is one more.
drop_duplicates_none(frame) == {<<i>> : i \in 0..frame.nrows}

\* df.drop_duplicates(): the distinct full rows (missing cells equal each other)
drop_duplicates(frame) == {FrameRow(frame, i) : i \in 1..frame.nrows}

\* The dict check_duplicates returns; {} when the argument has no len().
check_duplicates(frame) ==
    IF ~frame.ok THEN <<>>
    ELSE LET total_rows == frame.nrows
             unique_rows == Cardinality(drop_duplicates(frame))
             duplicate_count == total_rows - unique_rows
         IN  [total_rows |-> total_rows,
              unique_rows |-> unique_rows,
              duplicate_count |-> duplicate_count,
              duplicate_percentage |->
                  IF total_rows > 0 THEN RoundPercent(duplicate_count, total_rows)
                  ELSE Zero]

\* Series.sort_values() of a series without missing cells
RECURSIVE sort_values(_)
sort_values(s) ==
    IF s = <<>> THEN <<>>
    ELSE LET m == SeqMin(s)
             i == CHOOSE j \in 1..Len(s) : s[j] = m
         IN  <<m>> \o sort_values(SubSeq(s, 1, i - 1) \o SubSeq(s, i + 1, Len(s)))

\* Series.quantile(qn / qd) of a non-empty series without missing cells:
\* linear interpolation between the two order statistics around the
\* position (n - 1) * q.
quantile(s, qn, qd) ==
    LET sorted == sort_values(s)
        n == Len(sorted)
        pos == (n - 1) * qn
        i == pos \div qd
        r == pos % qd
        lo == sorted[i + 1]
        hi == sorted[IF i + 2 <= n THEN i + 2 ELSE n]
    IN  Fin(lo * qd + r * (hi - lo), qd)

\* Mutation: a value on a bound counts as an outlier too.
is_outlier_inclusive(v, lower_bound, upper_bound) ==
    Le(Fin(v, 1), lower_bound) \/ Le(upper_bound, Fin(v, 1))

\* (col_data < lower_bound) | (col_data > upper_bound), for one value
is_outlier(v, lower_bound, upper_bound) ==
    Lt(Fin(v, 1), lower_bound) \/ Gt(Fin(v, 1), upper_bound)

\* The entry of one numeric column, col_data its non-missing values.
outlier_info(col_data) ==
    LET Q1 == quantile(col_data, 1, 4)
        Q3 == quantile(col_data, 3, 4)
        IQR == Sub(Q3, Q1)
        lower_bound == Sub(Q1, Mul(Fin(3, 2), IQR))
        upper_bound == Add(Q3, Mul(Fin(3, 2), IQR))
        outlier_count ==
            Cardinality({j \in 1..Len(col_data) :
                           is_outlier(col_data[j], lower_bound, upper_bound)})
    IN  [count |-> outlier_count,
         percentage |-> RoundPercent(outlier_count, Len(col_data)),
         lower_bound |-> lower_bound,
         upper_bound |-> upper_bound]

\* df.select_dtypes(include=[np.number]).columns
numeric_cols(frame) == {c \in DOMAIN frame.cols : frame.cols[c].dtype = "num"}

\* The dict detect_outliers returns: one entry per numeric column that has
\* a non-missing value; {} when the argument is no DataFrame.
detect_outliers(frame) ==
    IF ~frame.ok THEN <<>>
    ELSE [column \in {c \in numeric_cols(frame) :
                        Len(dropna(frame.cols[c].vals)) > 0} |->
            outlier_info(dropna(frame.cols[column].vals))]

\* One numeric column x of up to MaxOutlierRows cells.
OutlierFrames ==
    UNION {{Frame(n, [c \in {"x"} |-> [dtype |-> "num", vals |-> v]]) :
              v \in AllSeqs(n)} : n \in 1..MaxOutlierRows}

\* The column x = [1, 2, 3, 4, 5, 100].
ScenarioFrame ==
    Frame(6, [c \in {"x"} |-> [dtype |-> "num", vals |-> <<1, 2, 3, 4, 5, 100>>]])

QualityInit ==
    /\ df \in QualityFrames \cup OutlierFrames \cup {ScenarioFrame, NotAFrame}
    /\ pc = "missing"
    /\ missing_values = Pending
    /\ duplicates = Pending
    /\ outliers = Pending
    /\ ServerIdle
    /\ threshold = Fin(1, 20)
    /\ reference_df = NotAFrame
    /\ target_df = NotAFrame
    /\ common_cols = {}
    /\ column_drift = <<>>
    /\ drift_scores = <<>>
    /\ report = Pending

CheckMissingValues ==
    /\ pc = "missing"
    /\ missing_values' = check_missing_values(df)
    /\ pc' = "duplicates"
    /\ UNCHANGED <<df, duplicates, outliers, driftVars, serverVars>>

CheckDuplicates ==
    /\ pc = "duplicates"
    /\ duplicates' = check_duplicates(df)
    /\ pc' = "checked"
    /\ UNCHANGED <<df, missing_values, outliers, driftVars, serverVars>>

DetectOutliers ==
    /\ pc = "checked"
    /\ outliers' = detect_outliers(df)
    /\ pc' = "outliers"
    /\ UNCHANGED <<df, missing_values, duplicates, driftVars, serverVars>>

QualityNext ==
    \/ CheckMissingValues
    \/ CheckDuplicates
    \/ DetectOutliers

QualitySpec == QualityInit /\ [][QualityNext]_vars

\* ------------------------------------------------------------- server
\* The handlers are taken whole.  The store holds the ids of the datasets
\* and, per report, the ids it was made for; what the engines compute is
\* not read by the handlers, which only pass it on.
HTTPException(status_code, detail) ==
    [raised |-> TRUE, http |-> TRUE, status_code |-> status_code, detail |-> detail]

\* Any other exception: a database call that fails, a CSV that does not
\* parse, a report the model or the encoder does not accept.
OtherException ==
    [raised |-> TRUE, http |-> FALSE, status_code |-> 0, detail |-> "failure"]

Returns == [raised |-> FALSE, http |-> FALSE, status_code |-> 200, detail |-> ""]

\* db.datasets.find_one({"id": dataset_id}) is not None
find_one(dataset_id) == dataset_id \in datasets

\* Lines 136-167, the try body of run_quality_check; completes says
\* whether everything after the lookup runs through insert_one.
quality_check_try(dataset_id, completes) ==
    IF ~find_one(dataset_id) THEN HTTPException(404, "Dataset not found")
    ELSE IF ~completes THEN OtherException
    ELSE Returns

\* Lines 176-208, the try body of run_drift_check.
drift_check_try(reference_id, target_id, completes) ==
    IF ~find_one(reference_id) THEN HTTPException(404, "Reference dataset not found")
    ELSE IF ~find_one(target_id) THEN HTTPException(404, "Target dataset not found")
    ELSE IF ~completes THEN OtherException
    ELSE Returns

\* "except Exception as e: raise HTTPException(status_code=500, ...)" around
\* a try body: HTTPException is an Exception, so whatever the body raised
\* leaves the handler as a 500 whose detail quotes it.
except_exception(handler, args, outcome, prefix) ==
    IF outcome.raised
    THEN [handler |-> handler, args |-> args, status |-> 500,
          detail |-> prefix, cause |-> outcome.detail]
    ELSE [handler |-> handler, args |-> args, status |-> 200,
          detail |-> "", cause |-> ""]

ServerInit ==
    /\ ServerIdle
    /\ pc = "serve"
    /\ threshold = Fin(1, 20)
    /\ reference_df = NotAFrame
    /\ target_df = NotAFrame
    /\ common_cols = {}
    /\ column_drift = <<>>
    /\ drift_scores = <<>>
    /\ report = Pending
    /\ df = NotAFrame
    /\ missing_values = Pending
    /\ duplicates = Pending
    /\ outliers = Pending

engineVars == <<threshold, reference_df, target_df, pc, common_cols,
                column_drift, drift_scores, report, qualityVars>>

\* upload_dataset: the file is parsed, then stored under a fresh uuid.
UploadDataset ==
    /\ pc = "serve"
    /\ \E id \in DatasetIds \ datasets, completes \in BOOLEAN :
          LET outcome == IF completes THEN Returns ELSE OtherException
          IN  /\ datasets' = IF completes THEN datasets \cup {id} ELSE datasets
              /\ response' = except_exception("upload_dataset", <<>>, outcome,
                                               "Error processing file")
    /\ UNCHANGED <<quality_reports, drift_reports, engineVars>>

RunQualityCheck ==
    /\ pc = "serve"
    /\ Len(quality_reports) < MaxReports
    /\ \E dataset_id \in DatasetIds, completes \in BOOLEAN :
          LET outcome == quality_check_try(dataset_id, completes)
          IN  /\ quality_reports' =
                    IF outcome.raised THEN quality_reports
                    ELSE Append(quality_reports, dataset_id)
              /\ response' = except_exception("run_quality_check", <<dataset_id>>,
                                               outcome, "Error in quality check")
    /\ UNCHANGED <<datasets, drift_reports, engineVars>>

RunDriftCheck ==
    /\ pc = "serve"
    /\ Len(drift_reports) < MaxReports
    /\ \E reference_id \in DatasetIds, target_id \in DatasetIds,
          completes \in BOOLEAN :
          LET outcome == drift_check_try(reference_id, target_id, completes)
          IN  /\ drift_reports' =
                    IF outcome.raised THEN drift_reports
                    ELSE Append(drift_reports, <<reference_id, target_id>>)
              /\ response' = except_exception("run_drift_check",
                                               <<reference_id, target_id>>,
                                               outcome, "Error in drift check")
    /\ UNCHANGED <<datasets, quality_reports, engineVars>>

ServerNext ==
    \/ UploadDataset
    \/ RunQualityCheck
    \/ RunDriftCheck

ServerSpec == ServerInit /\ [][ServerNext]_vars

\* ============================================================= claims
Done == pc = "done"

IsErrorReport(r) == "error" \in DOMAIN r.test_results

IsErrorResult(r) == "error" \in DOMAIN r

\* The column names the two arguments share.
CommonColumns == DOMAIN reference_df.cols \cap DOMAIN target_df.cols

RECURSIVE SumScores(_, _)
SumScores(cd, cols) ==
    IF cols = {} THEN Zero
    ELSE LET c == CHOOSE w \in cols : TRUE
         IN  Add(cd[c].drift_score, SumScores(cd, cols \ {c}))

MeanScore(cd) ==
    IF DOMAIN cd = {} THEN Zero
    ELSE DivInt(SumScores(cd, DOMAIN cd), Cardinality(DOMAIN cd))

\* C1: a report that is not the top-level error report carries as
\* overall_drift_score the arithmetic mean of the drift_score values of its
\* column_drift entries (the 0.0 of a failed column included), and 0.0 when
\* there is no common column.
C1_OverallIsMean ==
    (Done /\ ~IsErrorReport(report)) =>
        /\ report.overall_drift_score = MeanScore(report.column_drift)
        /\ (CommonColumns = {} => report.overall_drift_score = Zero)

\* C1 witness: a returned report over two columns, one failed (score 0.0)
\* and one with a positive finite score, whose mean is neither score.
C1_Witness ==
    /\ Done /\ ~IsErrorReport(report)
    /\ \E a, b \in DOMAIN report.column_drift :
          /\ IsErrorResult(report.column_drift[a])
          /\ ~IsErrorResult(report.column_drift[b])
          /\ IsFin(report.column_drift[b].drift_score)
          /\ report.column_drift[b].drift_score.n > 0
    /\ Lt(Zero, report.overall_drift_score)

\* C2: with two DataFrames as arguments the report is never the top-level
\* error report, it holds a result for every common column, and each result
\* that carries an error note has has_drift = false and drift_score = 0.0:
\* a failed column test neither aborts the loop nor the report.
C2_FailureIsColumnScoped ==
    (Done /\ reference_df.ok /\ target_df.ok) =>
        /\ ~IsErrorReport(report)
        /\ DOMAIN report.column_drift = CommonColumns
        /\ \A c \in CommonColumns :
              IsErrorResult(report.column_drift[c]) =>
                  /\ report.column_drift[c].has_drift = FALSE
                  /\ report.column_drift[c].drift_score = Zero
                  /\ report.column_drift[c].column_name = c

\* C2 witness: a returned report in which one column failed and another
\* column carries the statistic and p-value of its completed test.
C2_Witness ==
    /\ Done /\ ~IsErrorReport(report)
    /\ \E a, b \in DOMAIN report.column_drift :
          /\ IsErrorResult(report.column_drift[a])
          /\ "p_value" \in DOMAIN report.column_drift[b]
          /\ Lt(Zero, report.column_drift[b].drift_score)

\* C8: in a report that is not the top-level error report,
\* total_columns_tested is the number of common column names and the number
\* of column_drift entries, and columns_with_drift is the number of entries
\* with has_drift true, hence at most total_columns_tested.
C8_SummaryCounts ==
    (Done /\ ~IsErrorReport(report)) =>
        /\ report.test_results.total_columns_tested = Cardinality(CommonColumns)
        /\ report.test_results.total_columns_tested
              = Cardinality(DOMAIN report.column_drift)
        /\ report.test_results.columns_with_drift
              = Cardinality({c \in DOMAIN report.column_drift :
                                report.column_drift[c].has_drift})
        /\ report.test_results.columns_with_drift
              <= report.test_results.total_columns_tested

\* C8 witness: a report over two common columns, one entirely missing on
\* both sides or failed, of which exactly one is flagged.
C8_Witness ==
    /\ Done /\ ~IsErrorReport(report)
    /\ report.test_results.total_columns_tested = 2
    /\ report.test_results.columns_with_drift = 1
    /\ \E c \in CommonColumns :
          \/ IsErrorResult(report.column_drift[c])
          \/ dropna(reference_df.cols[c].vals) = <<>>

\* The library outcome behind a numeric column's result that is no error
\* result (an empty sample was then answered with nan).
KsOutcome(c) ==
    ks_2samp(dropna(reference_df.cols[c].vals), dropna(target_df.cols[c].vals),
             target_df.cols[c].dtype = "num", "nan")

KsColumns ==
    {c \in DOMAIN column_drift :
        /\ column_drift[c].test_type = "KS Test"
        /\ ~IsErrorResult(column_drift[c])}

\* C3 (as claimed): comparing a DataFrame with itself, under any threshold
\* >= 0, reports drift_detected = false, overall_drift_score = 0 and a
\* drift_score of 0 for every column.
C3_SelfComparisonIsZero ==
    (Done /\ reference_df.ok /\ reference_df = target_df /\ Le(Zero, threshold)) =>
        /\ ~IsErrorReport(report)
        /\ report.drift_detected = FALSE
        /\ report.overall_drift_score = Zero
        /\ \A c \in DOMAIN report.column_drift :
              report.column_drift[c].drift_score = Zero

C5_ChiSquareScoreIsFinite ==
    /\ \A c \in DOMAIN column_drift :
          column_drift[c].test_type = "Chi-Square Test" =>
              IsFin(column_drift[c].drift_score)
    /\ (Done /\ \A c \in DOMAIN column_drift :
                    column_drift[c].test_type = "Chi-Square Test")
          => IsFin(report.overall_drift_score)

\* Number of distinct non-missing values of a column.
UniqueValues(frame, c) == Cardinality(Range(dropna(frame.cols[c].vals)))

\* C6 (as claimed): for a column that is categorical on both sides the
\* chi-square test completes, whatever the two row counts, and its result
\* carries the two numbers of distinct values and no error note.
C6_ChiSquareCompletes ==
    \A c \in DOMAIN column_drift :
        (reference_df.cols[c].dtype = "cat" /\ target_df.cols[c].dtype = "cat") =>
            /\ ~IsErrorResult(column_drift[c])
            /\ "reference_unique_values" \in DOMAIN column_drift[c]
            /\ column_drift[c].reference_unique_values = UniqueValues(reference_df, c)
            /\ column_drift[c].target_unique_values = UniqueValues(target_df, c)

\* C7: two numeric column tests of one report whose KS statistic and
\* p-value agree carry the same has_drift and drift_score, whatever their
\* PSI; and the overall score and flag of the report are those of the
\* drift scores alone.
C7_PsiDoesNotDecide ==
    /\ \A a, b \in KsColumns :
          (/\ KsOutcome(a).statistic = KsOutcome(b).statistic
           /\ KsOutcome(a).pvalue = KsOutcome(b).pvalue) =>
              /\ column_drift[a].has_drift = column_drift[b].has_drift
              /\ column_drift[a].drift_score = column_drift[b].drift_score
    /\ (Done /\ ~IsErrorReport(report)) =>
          report.drift_detected
              = Gt(MeanScore(report.column_drift), report.test_results.threshold)

\* C7 witness: two numeric results with the same statistic and p-value, one
\* with PSI 0 and one with a positive PSI, both flagged.
C7_Witness ==
    \E a, b \in KsColumns :
        /\ KsOutcome(a).statistic = KsOutcome(b).statistic
        /\ KsOutcome(a).pvalue = KsOutcome(b).pvalue
        /\ column_drift[a].psi_score = Zero
        /\ column_drift[b].psi_score = Pos
        /\ column_drift[a].has_drift /\ column_drift[b].has_drift

\* C9: check_duplicates of a DataFrame reports unique_rows + duplicate_count
\* = total_rows with duplicate_count >= 0, and a duplicate_percentage of 0
\* for a DataFrame without rows.
C9_DuplicateCounts ==
    (pc = "checked" /\ df.ok) =>
        /\ duplicates.total_rows = df.nrows
        /\ duplicates.unique_rows + duplicates.duplicate_count = duplicates.total_rows
        /\ duplicates.duplicate_count >= 0
        /\ duplicates.unique_rows >= 0
        /\ (duplicates.total_rows = 0 => duplicates.duplicate_percentage = Zero)

\* C9 witness: a checked DataFrame of two columns with a repeated row.
C9_Witness ==
    /\ pc = "checked" /\ df.ok
    /\ Cardinality(DOMAIN df.cols) = 2
    /\ duplicates.duplicate_count > 0
    /\ duplicates.unique_rows > 0

\* C10: check_missing_values reports for every column a count between 0 and
\* total_rows and a percentage within [0,100], which is 0 for every column
\* of a DataFrame without rows.
C10_MissingRanges ==
    (pc \in {"duplicates", "checked"} /\ df.ok) =>
        /\ DOMAIN missing_values.columns = DOMAIN df.cols
        /\ \A c \in DOMAIN missing_values.columns :
              LET m == missing_values.columns[c]
              IN  /\ 0 <= m.count /\ m.count <= missing_values.total_rows
                  /\ Le(Zero, m.percentage) /\ Le(m.percentage, Fin(100, 1))
                  /\ (missing_values.total_rows = 0 => m.percentage = Zero)

\* C10 witness: a checked DataFrame with a column of which some but not all
\* cells are missing.
C10_Witness ==
    /\ pc = "checked" /\ df.ok
    /\ \E c \in DOMAIN missing_values.columns :
          /\ missing_values.columns[c].count > 0
          /\ missing_values.columns[c].count < missing_values.total_rows
          /\ Lt(Zero, missing_values.columns[c].percentage)

\* Non-missing values of column c of the checked DataFrame.
ColData(c) == dropna(df.cols[c].vals)

\* C11: detect_outliers reports exactly the numeric columns that have a
\* non-missing value; for each, lower_bound = Q1 - 1.5*IQR and upper_bound =
\* Q3 + 1.5*IQR with lower_bound <= upper_bound, and count is the number of
\* non-missing values strictly below lower_bound or strictly above
\* upper_bound.  For x = [1,2,3,4,5,100] the count is 1, the value 100.
C11_OutlierCounts ==
    (pc = "outliers" /\ df.ok) =>
        /\ DOMAIN outliers =
              {c \in DOMAIN df.cols :
                   /\ df.cols[c].dtype = "num"
                   /\ \E j \in 1..df.nrows : df.cols[c].vals[j] # 0}
        /\ \A c \in DOMAIN outliers :
              LET o == outliers[c]
                  Q1 == quantile(ColData(c), 1, 4)
                  Q3 == quantile(ColData(c), 3, 4)
              IN  /\ o.lower_bound = Sub(Q1, Mul(Fin(3, 2), Sub(Q3, Q1)))
                  /\ o.upper_bound = Add(Q3, Mul(Fin(3, 2), Sub(Q3, Q1)))
                  /\ Le(o.lower_bound, o.upper_bound)
                  /\ o.count =
                        Cardinality({j \in 1..Len(ColData(c)) :
                            \/ Lt(Fin(ColData(c)[j], 1), o.lower_bound)
                            \/ Gt(Fin(ColData(c)[j], 1), o.upper_bound)})
        /\ df = ScenarioFrame =>
              /\ outliers["x"].count = 1
              /\ Gt(Fin(100, 1), outliers["x"].upper_bound)
              /\ \A v \in 1..5 :
                    /\ Le(outliers["x"].lower_bound, Fin(v, 1))
                    /\ Le(Fin(v, 1), outliers["x"].upper_bound)

\* C11 witness: a column with a missing cell, a value beyond the fence and
\* a value inside it.
C11_Witness ==
    /\ pc = "outliers" /\ df.ok
    /\ \E c \in DOMAIN outliers :
          /\ outliers[c].count > 0
          /\ outliers[c].count < Len(ColData(c))
          /\ Len(ColData(c)) < df.nrows
          /\ Lt(outliers[c].lower_bound, outliers[c].upper_bound)

\* The latest request was a check that named a dataset id the store lacks.
NamedAbsentDataset(resp) ==
    /\ resp.handler \in {"run_quality_check", "run_drift_check"}
    /\ \E i \in 1..Len(resp.args) : resp.args[i] \notin datasets

\* C12 (as claimed): run_quality_check and run_drift_check answer a request
\* that names a dataset id absent from the store with status 404 and one of
\* the three "not found" details, not with 500, and insert no report then;
\* a report is inserted only by a request whose datasets were all found and
\* whose handler ran through.
C12_AbsentDatasetIs404 ==
    [][
        /\ NamedAbsentDataset(response') =>
              /\ response'.status = 404
              /\ response'.detail \in {"Dataset not found",
                                        "Reference dataset not found",
                                        "Target dataset not found"}
              /\ quality_reports' = quality_reports
              /\ drift_reports' = drift_reports
        /\ (quality_reports' # quality_reports \/ drift_reports' # drift_reports) =>
              /\ ~NamedAbsentDataset(response')
              /\ response'.status = 200
    ]_vars

====
